---- MODULE Spec2Model ----
(***************************************************************************)
(* PiNotes Lite front end: wikilink resolution and rewrite.                *)
(*                                                                         *)
(* Text is a sequence of units.  A unit is one character ("[", "]", "|",   *)
(* " ", "&", "/", ...) or a run of ordinary characters that every function *)
(* below treats alike ("N", "n", "constructor", "amp;", "md")  : no regular *)
(* expression, trim, escape or split in the source distinguishes the       *)
(* characters inside such a run.                                           *)
(***************************************************************************)
EXTENDS Integers, Sequences, FiniteSets, TLC

\* One text handed to one resolver: the text, the path of its note, the
\* function called and what it returned.
VARIABLES body, notePath, fn, out

\* App state (useState in App) and the selection inside the open modal
\* (useState in DisambiguationModal); requests holds the note fetches whose
\* response has not arrived, started counts the fetches begun.
VARIABLES authenticated, tree, noteIndex, selectedPath, note, noteError, loadingNote,
          disambiguation, selected, requests, started, crashed

\* The key of the last keydown event on the open modal ("" when none).
VARIABLES keydown

\* One LinkedMentions component: its filename prop (null while it is not
\* mounted), its useState values, the backlink fetches whose response has not
\* arrived and the number of fetches begun; viewport is the width class of
\* the window it is shown in.
VARIABLES viewport, filename, backlinks, loading, error, expanded, backlinkRequests,
          backlinkStarted

\* One call of normalizeRelativePath and of createAttachmentUrl on its
\* result: the arguments and what was returned (None before the call).
VARIABLES dirArg, srcArg, normalized, attachmentUrl

\* The table of contents of one note: the body of the note, the useState of
\* FloatingTocButton, the number of clicks made, what was clicked last, the
\* id that click handed to onNavigate (None when it called nothing) and the
\* line of the heading element scrollToHeading then scrolled to (0 when it
\* scrolled to nothing).
VARIABLES tocBody, isOpen, tocClicks, tocClicked, navigated, scrolledTo

callVars == <<body, notePath, fn, out>>

appVars == <<authenticated, tree, selectedPath, note, noteError, loadingNote,
             disambiguation, selected, requests, started, crashed, keydown>>

mentionVars == <<viewport, filename, backlinks, loading, error, expanded, backlinkRequests,
                 backlinkStarted>>

pathVars == <<dirArg, srcArg, normalized, attachmentUrl>>

tocVars == <<tocBody, isOpen, tocClicks, tocClicked, navigated, scrolledTo>>

vars == <<callVars, noteIndex, appVars, mentionVars, pathVars, tocVars>>

(***************************************************************************)
(* Generic helpers                                                         *)
(***************************************************************************)
Min(S) == CHOOSE x \in S : \A y \in S : x <= y

Max(S) == CHOOSE x \in S : \A y \in S : y <= x

RECURSIVE Flatten(_)
Flatten(ss) == IF ss = <<>> THEN <<>> ELSE Head(ss) \o Flatten(Tail(ss))

None == <<>>

Some(x) == <<x>>

(***************************************************************************)
(* JavaScript values met by the index lookup                               *)
(***************************************************************************)
Undefined == [t |-> "undefined"]

Arr(v) == [t |-> "array", v |-> v]

Fun(n) == [t |-> "function", length |-> n]

Obj == [t |-> "object"]

Null == [t |-> "null"]

Str(s) == [t |-> "string", v |-> s]

\* A note as /api/notes/<path> returns it.
Note(path, text) == [t |-> "note", path |-> path, body |-> text]

\* !value for the values selectedPath and note take
Falsy(value) == value.t \in {"null", "undefined"} \/ (value.t = "string" /\ value.v = <<>>)

\* Properties every plain object inherits: Object is a function of one
\* parameter, toString takes none, __proto__ is the prototype object itself.
ObjectPrototype ==
  (<<"constructor">> :> Fun(1)) @@ (<<"toString">> :> Fun(0)) @@ (<<"__proto__">> :> Obj)

\* Variant: the key is matched without regard to case.
GetPropertyFolded(index, key) ==
  LET folded == [i \in 1..Len(key) |-> IF key[i] = "n" THEN "N" ELSE key[i]]
  IN IF key \in DOMAIN index THEN Arr(index[key])
     ELSE IF folded \in DOMAIN index THEN Arr(index[folded])
     ELSE IF key \in DOMAIN ObjectPrototype THEN ObjectPrototype[key]
     ELSE Undefined

\* noteIndex[key]: an own property, else an inherited one, else undefined.
GetProperty(index, key) ==
  IF key \in DOMAIN index THEN Arr(index[key])
  ELSE IF key \in DOMAIN ObjectPrototype THEN ObjectPrototype[key]
  ELSE Undefined

\* Variant: only the first path of the bucket is kept.
LookupMatchesFirst(index, targetName) ==
  LET v == GetProperty(index, targetName)
  IN IF v = Undefined THEN Arr(<<>>)
     ELSE IF v.t = "array" /\ Len(v.v) > 1 THEN Arr(<<v.v[1]>>)
     ELSE v

\* noteIndex[targetName] || []
LookupMatches(index, targetName) ==
  LET v == GetProperty(index, targetName)
  IN IF v = Undefined THEN Arr(<<>>) ELSE v

\* matches.length === n
LengthIs(matches, n) ==
  \/ matches.t = "array" /\ Len(matches.v) = n
  \/ matches.t = "function" /\ matches.length = n

(***************************************************************************)
(* String functions                                                        *)
(***************************************************************************)
WhiteSpace == {" "}

\* String.prototype.trim
trim(s) ==
  LET keep == {i \in 1..Len(s) : s[i] \notin WhiteSpace}
  IN IF keep = {} THEN <<>> ELSE SubSeq(s, Min(keep), Max(keep))

\* App.jsx escapeHtml: & < > " replaced, in that order, each by its entity.
EscapeUnit(c) ==
  CASE c = "&" -> <<"&", "amp;">>
    [] c = "<" -> <<"&", "lt;">>
    [] c = ">" -> <<"&", "gt;">>
    [] c = "\"" -> <<"&", "quot;">>
    [] OTHER -> <<c>>

escapeHtml(text) == Flatten([i \in 1..Len(text) |-> EscapeUnit(text[i])])

\* utils/wikilinks.js escapeHtml: textContent -> innerHTML serialises a text
\* node, which escapes & < > and leaves the double quote alone.
DomEscapeUnit(c) ==
  CASE c = "&" -> <<"&", "amp;">>
    [] c = "<" -> <<"&", "lt;">>
    [] c = ">" -> <<"&", "gt;">>
    [] OTHER -> <<c>>

domEscapeHtml(text) == Flatten([i \in 1..Len(text) |-> DomEscapeUnit(text[i])])

\* encodeURIComponent on one unit: everything but letters, digits and
\* - _ . ! ~ * ' ( ) becomes %XX.
EncodeUnit(c) ==
  CASE c = " " -> <<"%", "2", "0">>
    [] c = "%" -> <<"%", "2", "5">>
    [] c = "," -> <<"%", "2", "C">>
    [] c = "&" -> <<"%", "2", "6">>
    [] c = "<" -> <<"%", "3", "C">>
    [] c = "[" -> <<"%", "5", "B">>
    [] c = "]" -> <<"%", "5", "D">>
    [] c = "|" -> <<"%", "7", "C">>
    [] OTHER -> <<c>>

encodeURIComponent(s) == Flatten([i \in 1..Len(s) |-> EncodeUnit(s[i])])

\* String.prototype.split(sep) for a one-unit separator.
RECURSIVE split(_, _)
split(s, sep) ==
  LET hits == {i \in 1..Len(s) : s[i] = sep}
  IN IF hits = {} THEN <<s>>
     ELSE <<SubSeq(s, 1, Min(hits) - 1)>> \o split(SubSeq(s, Min(hits) + 1, Len(s)), sep)

\* Array.prototype.join(sep)
RECURSIVE join(_, _)
join(parts, sep) ==
  IF parts = <<>> THEN <<>>
  ELSE IF Len(parts) = 1 THEN parts[1]
  ELSE parts[1] \o <<sep>> \o join(Tail(parts), sep)

encodePathSegments(path) ==
  LET segs == split(path, "/")
  IN join([i \in 1..Len(segs) |-> encodeURIComponent(segs[i])], "/")

PercentCode(a, b) ==
  CASE <<a, b>> = <<"2", "0">> -> " "
    [] <<a, b>> = <<"2", "5">> -> "%"
    [] <<a, b>> = <<"2", "C">> -> ","
    [] <<a, b>> = <<"2", "6">> -> "&"
    [] <<a, b>> = <<"3", "C">> -> "<"
    [] <<a, b>> = <<"5", "B">> -> "["
    [] <<a, b>> = <<"5", "D">> -> "]"
    [] <<a, b>> = <<"7", "C">> -> "|"
    [] OTHER -> "?"

\* The server reading the path of a request URL: percent-decoding.
RECURSIVE PercentDecode(_)
PercentDecode(s) ==
  IF s = <<>> THEN <<>>
  ELSE IF s[1] = "%" /\ Len(s) >= 3
    THEN <<PercentCode(s[2], s[3])>> \o PercentDecode(SubSeq(s, 4, Len(s)))
  ELSE <<s[1]>> \o PercentDecode(Tail(s))

RefChar(name) ==
  CASE name = "amp;" -> "&"
    [] name = "lt;" -> "<"
    [] name = "gt;" -> ">"
    [] name = "quot;" -> "\""

\* Character references decoded, as HTML and Markdown do in text and in
\* attribute values.
RECURSIVE DecodeRefs(_)
DecodeRefs(s) ==
  IF s = <<>> THEN <<>>
  ELSE IF s[1] = "&" /\ Len(s) >= 2 /\ s[2] \in {"amp;", "lt;", "gt;", "quot;"}
    THEN <<RefChar(s[2])>> \o DecodeRefs(SubSeq(s, 3, Len(s)))
  ELSE <<s[1]>> \o DecodeRefs(Tail(s))

(***************************************************************************)
(* The wikilink pattern  /\[\[([^\]|]+)(?:\|([^\]]+))?\]\]/                *)
(***************************************************************************)
\* First position at or after i holding a unit of stop, or Len(s) + 1: the
\* end of a greedy run of a negated character class.
RunEnd(s, i, stop) == Min({j \in i..Len(s) : s[j] \in stop} \cup {Len(s) + 1})

NoMatch == [ok |-> FALSE]

\* Variant: the alias may be empty ([^\]]* for the alias).
wikilinkMatchEmptyAlias(s, i) ==
  LET n == Len(s)
      tEnd == RunEnd(s, i + 2, {"]", "|"})
      aEnd == RunEnd(s, tEnd + 1, {"]"})
      closes(j) == j + 1 <= n /\ s[j] = "]" /\ s[j + 1] = "]"
  IN IF ~(i + 1 <= n /\ s[i] = "[" /\ s[i + 1] = "[") \/ tEnd = i + 2 THEN NoMatch
     ELSE IF closes(tEnd)
       THEN [ok |-> TRUE, from |-> i, to |-> tEnd + 1,
             target |-> SubSeq(s, i + 2, tEnd - 1), alias |-> None]
     ELSE IF tEnd <= n /\ s[tEnd] = "|" /\ closes(aEnd)
       THEN [ok |-> TRUE, from |-> i, to |-> aEnd + 1,
             target |-> SubSeq(s, i + 2, tEnd - 1),
             alias |-> Some(SubSeq(s, tEnd + 1, aEnd - 1))]
     ELSE NoMatch

\* The match of the pattern that starts exactly at position i, if any.  The
\* target run is maximal (a shorter run is followed by a unit that is neither
\* "|" nor "]"), and so is the alias run, so backtracking finds nothing else.
wikilinkMatch(s, i) ==
  LET n == Len(s)
      tEnd == RunEnd(s, i + 2, {"]", "|"})
      aEnd == RunEnd(s, tEnd + 1, {"]"})
      closes(j) == j + 1 <= n /\ s[j] = "]" /\ s[j + 1] = "]"
  IN IF ~(i + 1 <= n /\ s[i] = "[" /\ s[i + 1] = "[") \/ tEnd = i + 2 THEN NoMatch
     ELSE IF closes(tEnd)
       THEN [ok |-> TRUE, from |-> i, to |-> tEnd + 1,
             target |-> SubSeq(s, i + 2, tEnd - 1), alias |-> None]
     ELSE IF tEnd <= n /\ s[tEnd] = "|" /\ aEnd > tEnd + 1 /\ closes(aEnd)
       THEN [ok |-> TRUE, from |-> i, to |-> aEnd + 1,
             target |-> SubSeq(s, i + 2, tEnd - 1),
             alias |-> Some(SubSeq(s, tEnd + 1, aEnd - 1))]
     ELSE NoMatch

Lit(c) == [k |-> "lit", ch |-> c]

Lits(s) == [i \in 1..Len(s) |-> Lit(s[i])]

\* Variant: the scan resumes one unit too far after a match.
RECURSIVE scanWikilinksSkipping(_, _)
scanWikilinksSkipping(s, i) ==
  IF i > Len(s) THEN <<>>
  ELSE LET m == wikilinkMatch(s, i)
       IN IF m.ok THEN <<[k |-> "match", m |-> m]>> \o scanWikilinksSkipping(s, m.to + 2)
          ELSE <<Lit(s[i])>> \o scanWikilinksSkipping(s, i + 1)

\* String.prototype.replace with the /g flag: the matches from left to right,
\* not overlapping, and the text between them.
RECURSIVE scanWikilinks(_, _)
scanWikilinks(s, i) ==
  IF i > Len(s) THEN <<>>
  ELSE LET m == wikilinkMatch(s, i)
       IN IF m.ok THEN <<[k |-> "match", m |-> m]>> \o scanWikilinks(s, m.to + 1)
          ELSE <<Lit(s[i])>> \o scanWikilinks(s, i + 1)

\* (alias || target): alias is undefined when the group took no part.
AliasOrTarget(m) == IF m.alias # None /\ m.alias[1] # <<>> THEN m.alias[1] ELSE m.target

Throw == [k |-> "throw"]

(***************************************************************************)
(* rewriteWikilinks (App.jsx)                                              *)
(***************************************************************************)
\* The replacer callback.  display is the callback's local constant; the
\* other fields are what the returned markup holds.
rewriteReplacer(m, index) ==
  LET display == trim(AliasOrTarget(m))
      targetName == trim(m.target)
      matches == LookupMatches(index, targetName)
  IN IF LengthIs(matches, 0)
       THEN [k |-> "marker", el |-> "span", cls |-> {"wikilink-missing"},
             dataTarget |-> None, dataPaths |-> None, href |-> None,
             display |-> display, text |-> escapeHtml(display)]
     ELSE IF LengthIs(matches, 1)
       THEN IF matches.t # "array" THEN Throw   \* matches[0] is undefined: .split throws
            ELSE [k |-> "marker", el |-> "mdlink", cls |-> {},
                  dataTarget |-> None, dataPaths |-> None,
                  href |-> Some(<<"/", "notes", "/">> \o encodePathSegments(matches.v[1])),
                  display |-> display, text |-> display]
     ELSE IF matches.t # "array" THEN Throw     \* matches.map is not a function
     ELSE [k |-> "marker", el |-> "span", cls |-> {"wikilink", "ambiguous"},
           dataTarget |-> Some(escapeHtml(targetName)),
           dataPaths |-> Some(join([i \in 1..Len(matches.v) |->
                                      encodePathSegments(matches.v[i])], ",")),
           href |-> None,
           display |-> display, text |-> escapeHtml(display)]

\* The result of a replace: the output pieces in order.  When the callback
\* throws, replace throws: status "threw", and items holds what the callback
\* had returned before.
Finish(items) ==
  LET bad == {i \in 1..Len(items) : items[i] = Throw}
  IN IF bad = {} THEN [status |-> "returned", items |-> items]
     ELSE [status |-> "threw", items |-> SubSeq(items, 1, Min(bad) - 1)]

rewriteWikilinks(s, index) ==
  LET segs == scanWikilinks(s, 1)
  IN Finish([i \in 1..Len(segs) |->
               IF segs[i].k = "lit" THEN segs[i] ELSE rewriteReplacer(segs[i].m, index)])

(***************************************************************************)
(* preprocessWikilinks (utils/wikilinks.js)                                *)
(***************************************************************************)
\* JSON.stringify(matches).replace(/"/g, '&quot;') for an array of paths
\* (paths here hold no quote or backslash, which stringify would escape).
PathsJson(paths) ==
  <<"[">> \o join([i \in 1..Len(paths) |-> <<"&quot;">> \o paths[i] \o <<"&quot;">>], ",")
  \o <<"]">>

preprocessReplacer(m, index) ==
  LET display == trim(AliasOrTarget(m))
      targetName == trim(m.target)
      matches == LookupMatches(index, targetName)
  IN IF LengthIs(matches, 0)
       THEN [k |-> "marker", el |-> "span", cls |-> {"wikilink-missing"},
             dataTarget |-> Some(domEscapeHtml(targetName)),
             dataPath |-> None, dataPaths |-> None,
             display |-> display, text |-> domEscapeHtml(display)]
     ELSE IF LengthIs(matches, 1)
       THEN [k |-> "marker", el |-> "span", cls |-> {"wikilink"},
             dataTarget |-> Some(domEscapeHtml(targetName)),
             \* textContent = undefined leaves the node empty
             dataPath |-> Some(IF matches.t = "array" THEN domEscapeHtml(matches.v[1])
                               ELSE <<>>),
             dataPaths |-> None,
             display |-> display, text |-> domEscapeHtml(display)]
     ELSE IF matches.t = "function" THEN Throw  \* stringify gives undefined: .replace throws
     ELSE [k |-> "marker", el |-> "span", cls |-> {"wikilink", "ambiguous"},
           dataTarget |-> Some(domEscapeHtml(targetName)),
           dataPath |-> None,
           dataPaths |-> Some(IF matches.t = "array" THEN PathsJson(matches.v)
                              ELSE <<"{", "}">>),
           display |-> display, text |-> domEscapeHtml(display)]

preprocessWikilinks(markdown, index) ==
  IF markdown = <<>> THEN [status |-> "returned", items |-> <<>>]
  ELSE LET segs == scanWikilinks(markdown, 1)
       IN Finish([i \in 1..Len(segs) |->
                    IF segs[i].k = "lit" THEN segs[i]
                    ELSE preprocessReplacer(segs[i].m, index)])

(***************************************************************************)
(* Wikilink component (components/Wikilink.jsx)                            *)
(***************************************************************************)
\* raw.match(/^\[\[([^\]|]+)(?:\|([^\]]+))?\]\]$/)
wholeMatch(raw) ==
  LET m == wikilinkMatch(raw, 1)
  IN IF m.ok /\ m.to = Len(raw) THEN m ELSE NoMatch

\* The element rendered.  onClick holds the call the click handler makes.
Wikilink(raw, index) ==
  LET m == wholeMatch(raw)
      target == trim(m.target)
      display == trim(IF m.alias # None /\ m.alias[1] # <<>> THEN m.alias[1] ELSE m.target)
      matches == LookupMatches(index, target)
  IN IF ~m.ok THEN [status |-> "returned", items |-> Lits(raw)]
     ELSE IF LengthIs(matches, 0)
       THEN [status |-> "returned",
             items |-> <<[k |-> "marker", el |-> "span", cls |-> {"wikilink-missing"},
                          onClick |-> None, display |-> display, text |-> display]>>]
     ELSE IF LengthIs(matches, 1)
       THEN [status |-> "returned",
             items |-> <<[k |-> "marker", el |-> "a", cls |-> {"wikilink"},
                          onClick |-> Some([call |-> "onNavigate",
                                            path |-> IF matches.t = "array"
                                                     THEN Some(matches.v[1]) ELSE None]),
                          display |-> display, text |-> display]>>]
     ELSE [status |-> "returned",
           items |-> <<[k |-> "marker", el |-> "a", cls |-> {"wikilink", "ambiguous"},
                        onClick |-> Some([call |-> "onDisambiguate", target |-> target,
                                          matches |-> matches, display |-> display]),
                        display |-> display, text |-> display]>>]

(***************************************************************************)
(* rewriteNoteBody and the image rewrites that run before the wikilinks    *)
(***************************************************************************)
ATTACHMENTS_ROUTE == <<"/", "api", "/", "attachments">>

StartsWith(s, p) == Len(s) >= Len(p) /\ SubSeq(s, 1, Len(p)) = p

\* relativePath.replace(/^\/+/, '')
StripLeadingSlashes(s) ==
  LET keep == {i \in 1..Len(s) : s[i] # "/"}
  IN IF keep = {} THEN <<>> ELSE SubSeq(s, Min(keep), Len(s))

createAttachmentUrl(relativePath) ==
  IF relativePath = <<>> THEN ATTACHMENTS_ROUTE
  ELSE ATTACHMENTS_ROUTE \o <<"/">> \o encodePathSegments(StripLeadingSlashes(relativePath))

\* Variant: a leading slash is not taken for an absolute source.
isAbsoluteOrRemoteNoSlash(src) ==
  \/ src = <<>>
  \/ LET trimmed == trim(src)
     IN \/ StartsWith(trimmed, <<"http", ":", "/", "/">>)
        \/ StartsWith(trimmed, <<"https", ":", "/", "/">>)
        \/ StartsWith(trimmed, <<"data", ":">>)

isAbsoluteOrRemote(src) ==
  \/ src = <<>>
  \/ LET trimmed == trim(src)
     IN \/ StartsWith(trimmed, <<"/">>)
        \/ StartsWith(trimmed, <<"http", ":", "/", "/">>)
        \/ StartsWith(trimmed, <<"https", ":", "/", "/">>)
        \/ StartsWith(trimmed, <<"data", ":">>)
        \/ StartsWith(trimmed, <<"/", "/">>)

\* Variant: ".." is kept as a segment when the stack is empty.
RECURSIVE WalkPartsKeeping(_, _)
WalkPartsKeeping(parts, stack) ==
  IF parts = <<>> THEN stack
  ELSE LET part == Head(parts)
       IN IF part = <<>> \/ part = <<".">> THEN WalkPartsKeeping(Tail(parts), stack)
          ELSE IF part = <<".", ".">> /\ Len(stack) > 0
            THEN WalkPartsKeeping(Tail(parts), SubSeq(stack, 1, Len(stack) - 1))
          ELSE WalkPartsKeeping(Tail(parts), Append(stack, part))

RECURSIVE WalkParts(_, _)
WalkParts(parts, stack) ==
  IF parts = <<>> THEN stack
  ELSE LET part == Head(parts)
       IN IF part = <<>> \/ part = <<".">> THEN WalkParts(Tail(parts), stack)
          ELSE IF part = <<".", ".">>
            THEN WalkParts(Tail(parts),
                           IF Len(stack) > 0 THEN SubSeq(stack, 1, Len(stack) - 1) ELSE stack)
          ELSE WalkParts(Tail(parts), Append(stack, part))

normalizeRelativePath(baseDir, relativePath) ==
  LET baseParts == IF baseDir # <<>>
                   THEN SelectSeq(split(baseDir, "/"), LAMBDA x : x # <<>>) ELSE <<>>
  IN join(WalkParts(split(relativePath, "/"), baseParts), "/")

\* The match of /!\[\[(.+?)\]\]/ starting at i: the inner text is the
\* shortest non-empty run that "]]" follows.
embedMatch(s, i) ==
  LET n == Len(s)
      ends == {j \in (i + 4)..(n - 1) : s[j] = "]" /\ s[j + 1] = "]"}
  IN IF i + 2 <= n /\ s[i] = "!" /\ s[i + 1] = "[" /\ s[i + 2] = "[" /\ ends # {}
     THEN [ok |-> TRUE, to |-> Min(ends) + 1, inner |-> SubSeq(s, i + 3, Min(ends) - 1)]
     ELSE NoMatch

embedReplacer(inner) ==
  LET parts == split(inner, "|")
      trimmedPath == trim(parts[1])
      alt == IF Len(parts) >= 2 THEN trim(parts[2]) ELSE <<>>
  IN IF trimmedPath = <<>> THEN <<>>
     ELSE <<"!", "[">> \o alt \o <<"]", "(">>
          \o createAttachmentUrl(<<"_attachments", "/">> \o trimmedPath) \o <<")">>

RECURSIVE EmbedsFrom(_, _)
EmbedsFrom(s, i) ==
  IF i > Len(s) THEN <<>>
  ELSE LET m == embedMatch(s, i)
       IN IF m.ok THEN embedReplacer(m.inner) \o EmbedsFrom(s, m.to + 1)
          ELSE <<s[i]>> \o EmbedsFrom(s, i + 1)

rewriteObsidianEmbeds(s) == EmbedsFrom(s, 1)

\* The match of /!\[([^\]]*?)\]\(([^)]+)\)/ starting at i.
imageMatch(s, i) ==
  LET n == Len(s)
      aEnd == RunEnd(s, i + 2, {"]"})
      sEnd == RunEnd(s, aEnd + 2, {")"})
  IN IF /\ i + 1 <= n /\ s[i] = "!" /\ s[i + 1] = "["
        /\ aEnd + 1 <= n /\ s[aEnd + 1] = "("
        /\ sEnd > aEnd + 2 /\ sEnd <= n
     THEN [ok |-> TRUE, to |-> sEnd, alt |-> SubSeq(s, i + 2, aEnd - 1),
           src |-> SubSeq(s, aEnd + 2, sEnd - 1)]
     ELSE NoMatch

imageReplacer(s, i, m, noteDir) ==
  LET trimmedSrc == trim(m.src)
      resolved == normalizeRelativePath(noteDir, trimmedSrc)
      whole == SubSeq(s, i, m.to)
  IN IF trimmedSrc = <<>> \/ isAbsoluteOrRemote(trimmedSrc) THEN whole
     ELSE IF resolved = <<>> THEN whole
     ELSE <<"!", "[">> \o m.alt \o <<"]", "(">> \o createAttachmentUrl(resolved) \o <<")">>

RECURSIVE ImagesFrom(_, _, _)
ImagesFrom(s, i, noteDir) ==
  IF i > Len(s) THEN <<>>
  ELSE LET m == imageMatch(s, i)
       IN IF m.ok THEN imageReplacer(s, i, m, noteDir) \o ImagesFrom(s, m.to + 1, noteDir)
          ELSE <<s[i]>> \o ImagesFrom(s, i + 1, noteDir)

\* notePath.slice(0, notePath.lastIndexOf('/')), or '' for a note at the root
NoteDir(path) ==
  LET hits == {i \in 1..Len(path) : path[i] = "/"}
  IN IF hits = {} THEN <<>> ELSE SubSeq(path, 1, Max(hits) - 1)

rewriteRelativeImages(s, path) == ImagesFrom(s, 1, NoteDir(path))

rewriteNoteBody(n, index) ==
  IF Falsy(n) THEN [status |-> "returned", items |-> <<>>]
  ELSE rewriteWikilinks(rewriteRelativeImages(rewriteObsidianEmbeds(n.body), n.path), index)

(***************************************************************************)
(* Inputs                                                                  *)
(***************************************************************************)
MaxPieces == 4

\* All texts made of at most n pieces of P.
RECURSIVE TextsOf(_, _)
TextsOf(P, n) ==
  IF n = 0 THEN {<<>>}
  ELSE LET shorter == TextsOf(P, n - 1)
       IN shorter \cup {t \o p : t \in shorter, p \in P}

\* Whole tokens with text around them: [[N]]  [[n|N]]  [[constructor]]
PiecesTokens ==
  { <<"[", "[", "N", "]", "]">>, <<"[", "[", "n", "|", "N", "]", "]">>,
    <<"[", "[", "constructor", "]", "]">>, <<"N">>, <<" ">> }

\* Aliases, present, empty and blank, and targets with blanks
PiecesAlias == {<<"[", "[", "N">>, <<"|">>, <<" ">>, <<"]", "]">>, <<"N">>}

\* Targets, present, empty and blank, in either case
PiecesTarget == {<<"[", "[">>, <<" ">>, <<"|", "N">>, <<"]", "]">>, <<"n">>}

\* Unbalanced and surplus brackets
PiecesBrackets == {<<"[", "[", "N">>, <<"[">>, <<"]">>, <<"|">>, <<"N">>}

\* Characters that escapeHtml replaces, and a character reference
PiecesHtml == {<<"[", "[", "N">>, <<"|">>, <<"&", "amp;">>, <<"<">>, <<"]", "]">>}

\* Markdown images
PiecesImages == {<<"!", "[">>, <<"]", "(">>, <<")">>, <<"N">>, <<"/">>}

\* Obsidian embeds
PiecesEmbeds == {<<"!", "[">>, <<"[">>, <<"]", "]">>, <<"N">>, <<"|">>}

Bodies ==
  UNION {TextsOf(P, MaxPieces) :
           P \in {PiecesTokens, PiecesAlias, PiecesTarget, PiecesBrackets, PiecesHtml,
                  PiecesImages, PiecesEmbeds}}

PathA == <<"a", "/", "N", ".", "md">>

PathB == <<"b", " ", "c", "/", "N", ".", "md">>

PathC == <<"c", "/", "n", ".", "md">>

\* useState({}): the index before the response
EmptyIndex == [key \in {} |-> <<>>]

IndexDup == (<<"N">> :> <<PathB, PathA>>)

IndexMixed ==
  (<<"N">> :> <<PathA>>) @@ (<<"n">> :> <<PathB, PathC>>) @@ (<<"N", " ", "N">> :> <<PathC>>)

Indexes == {EmptyIndex, IndexDup, IndexMixed}

NotePaths == {<<"N", ".", "md">>, PathA}

(***************************************************************************)
(* The resolvers applied to one text                                       *)
(***************************************************************************)
NoResult == [status |-> "none", items |-> <<>>]

\* App as it is mounted: the initial values of its useState calls.
AppMounted ==
  /\ authenticated = Null
  /\ tree = Null
  /\ selectedPath = Str(<<>>)
  /\ note = Null
  /\ noteError = <<>>
  /\ loadingNote = FALSE
  /\ disambiguation = Null
  /\ selected = Undefined
  /\ requests = {}
  /\ started = 0
  /\ crashed = FALSE
  /\ keydown = ""

\* No LinkedMentions is mounted: the initial values of its useState calls.
MentionsUnmounted ==
  /\ filename = Null
  /\ backlinks = <<>>
  /\ loading = FALSE
  /\ error = <<>>
  /\ expanded = TRUE
  /\ backlinkRequests = {}
  /\ backlinkStarted = 0

\* normalizeRelativePath has not been called.
NoPathCall ==
  /\ dirArg = <<>>
  /\ srcArg = <<>>
  /\ normalized = None
  /\ attachmentUrl = None

\* No note with headings is shown: the table of contents is not rendered.
TocUnmounted ==
  /\ tocBody = <<>>
  /\ isOpen = FALSE
  /\ tocClicks = 0
  /\ tocClicked = [on |-> "nothing", item |-> 0]
  /\ navigated = None
  /\ scrolledTo = 0

InitRewrite ==
  /\ body \in Bodies
  /\ noteIndex = EmptyIndex
  /\ notePath = <<>>
  /\ fn = "none"
  /\ out = NoResult
  /\ AppMounted
  /\ viewport = "desktop"
  /\ MentionsUnmounted
  /\ NoPathCall
  /\ TocUnmounted

CallRewriteWikilinks ==
  /\ fn = "none"
  /\ \E index \in Indexes :
       /\ noteIndex' = index
       /\ out' = rewriteWikilinks(body, index)
  /\ fn' = "rewriteWikilinks"
  /\ UNCHANGED <<body, notePath, appVars, mentionVars, pathVars, tocVars>>

CallPreprocessWikilinks ==
  /\ fn = "none"
  /\ \E index \in Indexes :
       /\ noteIndex' = index
       /\ out' = preprocessWikilinks(body, index)
  /\ fn' = "preprocessWikilinks"
  /\ UNCHANGED <<body, notePath, appVars, mentionVars, pathVars, tocVars>>

CallWikilink ==
  /\ fn = "none"
  /\ \E index \in Indexes :
       /\ noteIndex' = index
       /\ out' = Wikilink(body, index)
  /\ fn' = "Wikilink"
  /\ UNCHANGED <<body, notePath, appVars, mentionVars, pathVars, tocVars>>

CallRewriteNoteBody ==
  /\ fn = "none"
  /\ \E index \in Indexes, path \in NotePaths :
       /\ noteIndex' = index
       /\ notePath' = path
       /\ out' = rewriteNoteBody(Note(path, body), index)
  /\ fn' = "rewriteNoteBody"
  /\ UNCHANGED <<body, appVars, mentionVars, pathVars, tocVars>>

\* The function named f applied to a text.
ResultOf(f, s, index, path) ==
  CASE f = "rewriteWikilinks" -> rewriteWikilinks(s, index)
    [] f = "preprocessWikilinks" -> preprocessWikilinks(s, index)
    [] f = "Wikilink" -> Wikilink(s, index)
    [] f = "rewriteNoteBody" -> rewriteNoteBody(Note(path, s), index)

\* The keys the function named f looks up in the index, in order.
LookedUp(f, s, path) ==
  IF f = "Wikilink"
  THEN IF wholeMatch(s).ok THEN <<trim(wholeMatch(s).target)>> ELSE <<>>
  ELSE LET text == IF f = "rewriteNoteBody"
                   THEN rewriteRelativeImages(rewriteObsidianEmbeds(s), path)
                   ELSE s
           hits == SelectSeq(scanWikilinks(text, 1), LAMBDA x : x.k = "match")
       IN [i \in 1..Len(hits) |-> trim(hits[i].m.target)]

\* Variant: a key that is looked up and absent is stored with an empty
\* bucket (noteIndex[targetName] ||= []).
IndexAfterLookupStoring(index, targetName) ==
  IF targetName \in DOMAIN index THEN index ELSE index @@ (targetName :> <<>>)

\* The index after noteIndex[targetName] || [] : the expression only reads.
IndexAfterLookup(index, targetName) == index

RECURSIVE IndexAfterLookups(_, _)
IndexAfterLookups(index, keys) ==
  IF keys = <<>> THEN index
  ELSE IndexAfterLookups(IndexAfterLookup(index, Head(keys)), Tail(keys))

\* The two rewrites of a whole body.
Rewrites == {"rewriteWikilinks", "preprocessWikilinks"}

\* One more call on the same text and the index as it is now: of the same
\* function, or of the other rewrite.
CallAgain ==
  /\ fn # "none"
  /\ \E f \in {fn} \cup (IF fn \in Rewrites THEN Rewrites ELSE {}) :
       /\ fn' = f
       /\ out' = ResultOf(f, body, noteIndex, notePath)
       /\ noteIndex' = IndexAfterLookups(noteIndex, LookedUp(f, body, notePath))
  /\ UNCHANGED <<body, notePath, appVars, mentionVars, pathVars, tocVars>>

NextRewrite ==
  \/ CallRewriteWikilinks
  \/ CallPreprocessWikilinks
  \/ CallWikilink
  \/ CallRewriteNoteBody
  \/ CallAgain

SpecRewrite == InitRewrite /\ [][NextRewrite]_vars

(***************************************************************************)
(* The application: App (App.jsx) and DisambiguationModal                  *)
(*                                                                         *)
(* The actions are the callbacks of App once it has rendered.  The body    *)
(* given to ReactMarkdown is taken to reach the sanitizer as elements: a   *)
(* marker span is one element with its attributes, a Markdown link one a   *)
(* element.  Note that the dependency array [note, transformedBody] of the *)
(* heading observer effect stands above the declaration of transformedBody.*)
(***************************************************************************)
MaxRequests == 3

Bool(b) == [t |-> "boolean", v |-> b]

PathH == <<"H", ".", "md">>

PathK == <<"K", ".", "md">>

PathS == <<"s", " ", "t", ".", "md">>

\* The notes the server holds: path |-> body.
Vault ==
  (PathH :> <<"[", "[", "N", "]", "]", " ", "[", "[", "n", "]", "]", " ",
              "[", "[", "X", "]", "]">>)
  @@ (PathA :> <<"[", "[", "H", "]", "]">>)
  @@ (PathB :> <<"[", "[", "N", "|", "n", "]", "]">>)
  @@ (PathC :> <<"!", "[", "]", "(", "N", ")", " ", "[", "[", "s", " ", "t", "]", "]">>)
  @@ (PathK :> <<"[", "[", "constructor", "]", "]">>)
  @@ (PathS :> <<"[", "[", "H", "|", "h", "]", "]">>)

\* The index of that vault: file name without .md |-> its paths.
VaultIndex ==
  (<<"N">> :> <<PathB, PathA>>) @@ (<<"n">> :> <<PathC>>) @@ (<<"H">> :> <<PathH>>)
  @@ (<<"K">> :> <<PathK>>) @@ (<<"s", " ", "t">> :> <<PathS>>)

\* findFirstNotePath(tree): the first file of the tree
FirstNote == PathH

\* sanitizeSchema: what rehype-sanitize keeps of a span.  The default schema
\* allows no attribute of its own on span; the extension adds className with
\* the three marker classes.
sanitizeSchema ==
  [span |-> [className |-> {"wikilink", "wikilink-missing", "ambiguous"}]]

\* rehype-sanitize with sanitizeSchema, on one element of the rewritten body.
sanitize(item) ==
  IF item.k # "marker" \/ item.el # "span" THEN item
  ELSE [item EXCEPT !.cls = item.cls \cap sanitizeSchema.span.className,
                    !.dataTarget = IF "dataTarget" \in DOMAIN sanitizeSchema.span
                                   THEN item.dataTarget ELSE None,
                    !.dataPaths = IF "dataPaths" \in DOMAIN sanitizeSchema.span
                                  THEN item.dataPaths ELSE None]

\* What GET /api/notes/index can answer with: the index of the vault, or a
\* body without an index (an error body).
IndexReplies == {[index |-> VaultIndex], [detail |-> "error"]}

\* Variant: only the keys with a single path are taken over.
IndexOfPartial(data) ==
  IF "index" \in DOMAIN data
  THEN [key \in {x \in DOMAIN data.index : Len(data.index[x]) = 1} |-> data.index[key]]
  ELSE EmptyIndex

\* data.index || {}
IndexOf(data) == IF "index" \in DOMAIN data THEN data.index ELSE EmptyIndex

\* The values note and noteIndex take: a note of the vault or none, and the
\* index a reply gives or the empty one.
NoteValues == {Null} \cup {Note(path, Vault[path]) : path \in DOMAIN Vault}

IndexValues == {EmptyIndex} \cup {IndexOf(data) : data \in IndexReplies}

\* useMemo(() => rewriteNoteBody(note, noteIndex), [note, noteIndex]): the
\* rewritten body is a function of the two values, computed once for each.
MemoRewriteNoteBody ==
  [n \in NoteValues, index \in IndexValues |-> rewriteNoteBody(n, index)]

\* transformedBody
transformedBody == MemoRewriteNoteBody[note, noteIndex]

\* The elements ReactMarkdown hands to the components of
\* createMarkdownComponents; the article is rendered when note is set.
SanitizeAll(markdown) ==
  IF markdown.status # "returned" THEN <<>>
  ELSE [i \in 1..Len(markdown.items) |-> sanitize(markdown.items[i])]

Rendered == IF Falsy(note) THEN <<>> ELSE SanitizeAll(transformedBody)

\* The elements of a rendered article.
Elements(rendered) == {rendered[k] : k \in DOMAIN rendered}

\* The page takes events: signed in, and no render has thrown.
Interactive == authenticated = Bool(TRUE) /\ ~crashed

\* What every state change ends with: App renders again, and a throw while
\* rendering (in rewriteNoteBody, or in a state updater) unmounts it.
Render(updaterThrows) ==
  crashed' = IF updaterThrows THEN TRUE
             ELSE MemoRewriteNoteBody[note', noteIndex'].status = "threw"

NoteRequest(id, path) == [id |-> id, kind |-> "note", path |-> path]

\* The effects on [authenticated]: the tree and the index are fetched.
SignedInFetches == {[id |-> 0, kind |-> "tree", path |-> <<>>],
                    [id |-> 0, kind |-> "index", path |-> <<>>]}

encodeNotePath(path) == encodePathSegments(path)

\* handleSelectNote(p) and the effects that follow setSelectedPath: the
\* updater of expandedDirs calls p.split, which throws unless p is a string;
\* the note effect runs when selectedPath has changed, clears the note for an
\* empty path and starts a fetch otherwise; the effect on [tree, selectedPath]
\* selects the first note when the path is empty and the tree is loaded.
Select(p) ==
  /\ IF p.t # "string" \/ p = selectedPath
        THEN UNCHANGED <<selectedPath, note, noteError, loadingNote, requests, started>>
      ELSE IF Falsy(p) /\ Falsy(tree)
        THEN /\ selectedPath' = p
             /\ note' = Null
             /\ noteError' = <<>>
             /\ UNCHANGED <<loadingNote, requests, started>>
      ELSE LET path == IF Falsy(p) THEN FirstNote ELSE p.v
           IN /\ started < MaxRequests
              /\ selectedPath' = Str(path)
              /\ note' = IF Falsy(p) THEN Null ELSE note
              /\ noteError' = <<>>
              /\ loadingNote' = TRUE
              /\ started' = started + 1
              /\ requests' = requests \cup {NoteRequest(started + 1, path)}
  /\ Render(p.t # "string")

\* GET /api/auth/me answers.
AuthResponse ==
  /\ UNCHANGED <<keydown, mentionVars, pathVars, tocVars>>
  /\ ~crashed
  /\ authenticated = Null
  /\ \E b \in BOOLEAN :
       /\ authenticated' = Bool(b)
       /\ requests' = IF b THEN requests \cup SignedInFetches ELSE requests
  /\ UNCHANGED <<callVars, noteIndex, tree, selectedPath, note, noteError, loadingNote,
                 disambiguation, selected, started, crashed>>

\* handleLogin, the server accepting the credentials.
Login ==
  /\ UNCHANGED <<keydown, mentionVars, pathVars, tocVars>>
  /\ ~crashed
  /\ authenticated = Bool(FALSE)
  /\ authenticated' = Bool(TRUE)
  /\ requests' = requests \cup SignedInFetches
  /\ UNCHANGED <<callVars, noteIndex, tree, selectedPath, note, noteError, loadingNote,
                 disambiguation, selected, started, crashed>>

\* GET /api/notes/index answers with JSON: setNoteIndex(data.index || {}).
IndexResponse ==
  /\ UNCHANGED <<keydown, mentionVars, pathVars, tocVars>>
  /\ ~crashed
  /\ \E r \in requests :
       /\ r.kind = "index"
       /\ requests' = requests \ {r}
  /\ \E data \in IndexReplies : noteIndex' = IndexOf(data)
  /\ UNCHANGED <<callVars, authenticated, tree, selectedPath, note, noteError, loadingNote,
                 disambiguation, selected, started>>
  /\ Render(FALSE)

\* The index request fails (no answer, or a body that is not JSON):
\* .catch(() => setNoteIndex({})).
IndexFailure ==
  /\ UNCHANGED <<keydown, mentionVars, pathVars, tocVars>>
  /\ ~crashed
  /\ \E r \in requests :
       /\ r.kind = "index"
       /\ requests' = requests \ {r}
  /\ noteIndex' = EmptyIndex
  /\ UNCHANGED <<callVars, authenticated, tree, selectedPath, note, noteError, loadingNote,
                 disambiguation, selected, started>>
  /\ Render(FALSE)

\* GET /api/notes/tree answers with the tree: with no note selected the first
\* note is selected.
TreeResponse ==
  /\ UNCHANGED <<keydown, mentionVars, pathVars, tocVars>>
  /\ ~crashed
  /\ \E r \in requests :
       /\ r.kind = "tree"
       /\ tree' = Obj
       /\ IF Falsy(selectedPath)
            THEN /\ started < MaxRequests
                 /\ selectedPath' = Str(FirstNote)
                 /\ noteError' = <<>>
                 /\ loadingNote' = TRUE
                 /\ started' = started + 1
                 /\ requests' = (requests \ {r}) \cup {NoteRequest(started + 1, FirstNote)}
            ELSE /\ requests' = requests \ {r}
                 /\ UNCHANGED <<selectedPath, noteError, loadingNote, started>>
  /\ UNCHANGED <<callVars, authenticated, noteIndex, note, disambiguation, selected, crashed>>

\* GET /api/notes/tree fails: setTreeError, the tree stays null.
TreeFailure ==
  /\ UNCHANGED <<keydown, mentionVars, pathVars, tocVars>>
  /\ ~crashed
  /\ \E r \in requests :
       /\ r.kind = "tree"
       /\ requests' = requests \ {r}
  /\ UNCHANGED <<callVars, authenticated, noteIndex, tree, selectedPath, note, noteError,
                 loadingNote, disambiguation, selected, started, crashed>>

\* GET /api/notes/<path> answers with the note: setNote(data), then
\* setLoadingNote(false).
NoteResponse ==
  /\ UNCHANGED <<keydown, mentionVars, pathVars, tocVars>>
  /\ ~crashed
  /\ \E r \in requests :
       LET asked == PercentDecode(encodeNotePath(r.path))
       IN /\ r.kind = "note"
          /\ asked \in DOMAIN Vault
          /\ note' = Note(asked, Vault[asked])
          /\ requests' = requests \ {r}
  /\ loadingNote' = FALSE
  /\ UNCHANGED <<callVars, authenticated, noteIndex, tree, selectedPath, noteError,
                 disambiguation, selected, started>>
  /\ Render(FALSE)

\* The request fails (no such note: res.ok is false; or no answer at all):
\* setNoteError(message), then setLoadingNote(false).  The note stays.
NoteFailure ==
  /\ UNCHANGED <<keydown, mentionVars, pathVars, tocVars>>
  /\ ~crashed
  /\ \E r \in requests :
       LET asked == PercentDecode(encodeNotePath(r.path))
       IN /\ r.kind = "note"
          /\ requests' = requests \ {r}
          /\ noteError' \in (IF asked \in DOMAIN Vault THEN {} ELSE {<<"Note not available">>})
                            \cup {<<"Failed to fetch">>}
  /\ loadingNote' = FALSE
  /\ UNCHANGED <<callVars, authenticated, noteIndex, tree, selectedPath, note,
                 disambiguation, selected, started, crashed>>

\* A note is chosen in the file tree: selectNote(node.path).
SelectFromTree ==
  /\ UNCHANGED <<keydown, mentionVars, pathVars, tocVars>>
  /\ Interactive
  /\ ~Falsy(tree)
  /\ UNCHANGED <<callVars, authenticated, noteIndex, tree, disambiguation, selected>>
  /\ \E path \in DOMAIN Vault : Select(Str(path))

\* components.a: a link to /notes/... is clicked,
\* onNavigate(href.replace('/notes/', '')).
ClickResolved ==
  /\ UNCHANGED <<keydown, mentionVars, pathVars, tocVars>>
  /\ Interactive
  /\ UNCHANGED <<callVars, authenticated, noteIndex, tree, disambiguation, selected>>
  /\ \E el \in Elements(Rendered) :
       /\ el.k = "marker" /\ el.el = "mdlink"
       /\ StartsWith(el.href[1], <<"/", "notes", "/">>)
       /\ Select(Str(SubSeq(el.href[1], 4, Len(el.href[1]))))

\* components.span: a span whose className holds wikilink and ambiguous (and
\* not wikilink-missing) is clicked, onDisambiguate(target, paths, children);
\* handleDisambiguate sets disambiguation.  A modal that was closed mounts
\* with useState(matches[0]); one that was open keeps its selection.
ClickAmbiguous ==
  /\ UNCHANGED <<keydown, mentionVars, pathVars, tocVars>>
  /\ Interactive
  /\ \E el \in Elements(Rendered) :
       LET target == IF el.dataTarget = None THEN Undefined
                     ELSE Str(DecodeRefs(el.dataTarget[1]))
           pathsStr == IF el.dataPaths = None THEN <<>> ELSE DecodeRefs(el.dataPaths[1])
           paths == IF pathsStr = <<>> THEN <<>> ELSE split(pathsStr, ",")
       IN /\ el.k = "marker" /\ el.el = "span"
          /\ "wikilink-missing" \notin el.cls
          /\ {"wikilink", "ambiguous"} \subseteq el.cls
          /\ disambiguation' = [t |-> "object", target |-> target, matches |-> paths,
                                displayText |-> DecodeRefs(el.text)]
          /\ selected' = IF disambiguation # Null THEN selected
                         ELSE IF paths = <<>> THEN Undefined
                         ELSE Str(paths[1])
  /\ UNCHANGED <<callVars, authenticated, noteIndex, tree, selectedPath, note, noteError,
                 loadingNote, requests, started, crashed>>

\* Open in the modal: handleSubmit, onSelect(selected), which is
\* handleDisambiguationSelect: the modal closes and the path is selected.
ModalSubmit ==
  /\ keydown' = ""
  /\ UNCHANGED <<mentionVars, pathVars, tocVars>>
  /\ Interactive
  /\ disambiguation # Null
  /\ disambiguation' = Null
  /\ selected' = Undefined
  /\ UNCHANGED <<callVars, authenticated, noteIndex, tree>>
  /\ Select(selected)

\* Cancel, or a click on the backdrop: onCancel.
ModalCancel ==
  /\ keydown' = ""
  /\ UNCHANGED <<mentionVars, pathVars, tocVars>>
  /\ Interactive
  /\ disambiguation # Null
  /\ disambiguation' = Null
  /\ selected' = Undefined
  /\ UNCHANGED <<callVars, authenticated, noteIndex, tree, selectedPath, note, noteError,
                 loadingNote, requests, started, crashed>>

\* components.span: a span whose className holds wikilink-missing is rendered
\* as a plain span; clicking it calls nothing.
ClickMissing ==
  /\ Interactive
  /\ \E el \in Elements(Rendered) :
       /\ el.k = "marker" /\ el.el = "span"
       /\ "wikilink-missing" \in el.cls
  /\ UNCHANGED vars

\* The Escape key is pressed while the modal is open: DisambiguationModal
\* and App register no key handler.
PressEscape ==
  /\ Interactive
  /\ disambiguation # Null
  /\ keydown' = "Escape"
  /\ UNCHANGED <<callVars, noteIndex, authenticated, tree, selectedPath, note, noteError,
                 loadingNote, disambiguation, selected, requests, started, crashed,
                 mentionVars, pathVars, tocVars>>

\* path.split('/').pop()
LastSegment(path) == LET segs == split(path, "/") IN segs[Len(segs)]

\* name.replace(/\.md$/, '')
StripMd(name) ==
  IF Len(name) >= 2 /\ SubSeq(name, Len(name) - 1, Len(name)) = <<".", "md">>
  THEN SubSeq(name, 1, Len(name) - 2)
  ELSE name

\* noteFilename: the filename prop of LinkedMentions (null without a note)
noteFilename ==
  IF Falsy(note) THEN Null
  ELSE IF selectedPath.t # "string" THEN Undefined
  ELSE Str(StripMd(LastSegment(selectedPath.v)))

Init ==
  /\ body = <<>>
  /\ notePath = <<>>
  /\ fn = "none"
  /\ out = NoResult
  /\ noteIndex = EmptyIndex
  /\ AppMounted
  /\ viewport = "desktop"
  /\ MentionsUnmounted
  /\ NoPathCall
  /\ TocUnmounted

Next ==
  \/ AuthResponse
  \/ Login
  \/ IndexResponse
  \/ IndexFailure
  \/ TreeResponse
  \/ TreeFailure
  \/ NoteResponse
  \/ NoteFailure
  \/ SelectFromTree
  \/ ClickResolved
  \/ ClickAmbiguous
  \/ ClickMissing
  \/ PressEscape
  \/ ModalSubmit
  \/ ModalCancel

Spec == Init /\ [][Next]_vars

(***************************************************************************)
(* LinkedMentions (components/LinkedMentions.jsx)                          *)
(***************************************************************************)
MaxBacklinkRequests == 3

\* The file names the component is given.
MentionNames == {<<"N">>, <<"H">>, <<"X">>}

\* What GET /api/notes/backlinks?filename=... answers: the paths of the notes
\* that link to the name.
BacklinksOf(name) ==
  CASE name = <<"N">> -> <<PathH, PathB>>
    [] name = <<"H">> -> <<PathA, PathS>>
    [] OTHER -> <<>>

\* The section is rendered (and with it the toggle button).
MentionsShown == filename # Null /\ (Len(backlinks) # 0 \/ loading)

\* The effect on [filename]: setLoading(true), setError(''), fetch.
FetchBacklinks(name) ==
  /\ backlinkStarted < MaxBacklinkRequests
  /\ loading' = TRUE
  /\ error' = <<>>
  /\ backlinkStarted' = backlinkStarted + 1
  /\ backlinkRequests' = backlinkRequests \cup {[id |-> backlinkStarted + 1, name |-> name]}

\* App renders LinkedMentions (noteFilename has become truthy): the state
\* takes its initial values and the effect runs.
MentionsMount ==
  /\ filename = Null
  /\ \E name \in MentionNames :
       /\ filename' = Str(name)
       /\ FetchBacklinks(name)
  /\ expanded' = TRUE
  /\ UNCHANGED <<backlinks, viewport>>
  /\ UNCHANGED <<callVars, noteIndex, appVars, pathVars, tocVars>>

\* The filename prop changes: the effect runs again.
MentionsFilenameChange ==
  /\ filename # Null
  /\ \E name \in MentionNames :
       /\ Str(name) # filename
       /\ filename' = Str(name)
       /\ FetchBacklinks(name)
  /\ UNCHANGED <<backlinks, expanded, viewport>>
  /\ UNCHANGED <<callVars, noteIndex, appVars, pathVars, tocVars>>

\* The request is answered ok: setBacklinks(data), then setLoading(false).
BacklinksResponse ==
  /\ filename # Null
  /\ \E r \in backlinkRequests :
       /\ backlinks' = BacklinksOf(r.name)
       /\ backlinkRequests' = backlinkRequests \ {r}
  /\ loading' = FALSE
  /\ UNCHANGED <<filename, error, expanded, viewport, backlinkStarted>>
  /\ UNCHANGED <<callVars, noteIndex, appVars, pathVars, tocVars>>

\* The request fails: setError(err.message), then setLoading(false).
BacklinksFailure ==
  /\ filename # Null
  /\ \E r \in backlinkRequests :
       backlinkRequests' = backlinkRequests \ {r}
  /\ error' = <<"Failed to load backlinks">>
  /\ loading' = FALSE
  /\ UNCHANGED <<filename, backlinks, expanded, viewport, backlinkStarted>>
  /\ UNCHANGED <<callVars, noteIndex, appVars, pathVars, tocVars>>

\* The toggle button: setExpanded(!expanded).
MentionsToggle ==
  /\ MentionsShown
  /\ expanded' = ~expanded
  /\ UNCHANGED <<filename, backlinks, loading, error, viewport, backlinkRequests,
                 backlinkStarted>>
  /\ UNCHANGED <<callVars, noteIndex, appVars, pathVars, tocVars>>

\* App stops rendering LinkedMentions (no note): its state is dropped, and
\* the responses still to come change nothing.
MentionsUnmount ==
  /\ filename # Null
  /\ filename' = Null
  /\ backlinks' = <<>>
  /\ loading' = FALSE
  /\ error' = <<>>
  /\ expanded' = TRUE
  /\ backlinkRequests' = {}
  /\ UNCHANGED <<viewport, backlinkStarted>>
  /\ UNCHANGED <<callVars, noteIndex, appVars, pathVars, tocVars>>

InitMentions ==
  /\ body = <<>>
  /\ notePath = <<>>
  /\ fn = "none"
  /\ out = NoResult
  /\ noteIndex = EmptyIndex
  /\ AppMounted
  /\ viewport \in {"mobile", "desktop"}
  /\ MentionsUnmounted
  /\ NoPathCall
  /\ TocUnmounted

NextMentions ==
  \/ MentionsMount
  \/ MentionsFilenameChange
  \/ BacklinksResponse
  \/ BacklinksFailure
  \/ MentionsToggle
  \/ MentionsUnmount

SpecMentions == InitMentions /\ [][NextMentions]_vars

(***************************************************************************)
(* normalizeRelativePath and createAttachmentUrl on one image source       *)
(***************************************************************************)
MaxPathPieces == 5

\* Sources of images: segments ".", "..", "...", "N", empty, in any place.
PiecesPath == {<<".">>, <<".", ".">>, <<"/">>, <<"N">>}

\* The sources rewriteRelativeImages hands to normalizeRelativePath: trimmed,
\* not empty and not absolute or remote.
RelativePaths ==
  {src \in TextsOf(PiecesPath, MaxPathPieces) : src # <<>> /\ ~isAbsoluteOrRemote(src)}

\* Directories of notes: NoteDir of a vault path, no ".", ".." or empty
\* segment in them.
BaseDirs == {<<>>, <<"a">>, <<"a", "/", "b">>}

\* imageReplacer: resolved = normalizeRelativePath(noteDir, trimmedSrc)
CallNormalizeRelativePath ==
  /\ normalized = None
  /\ normalized' = Some(normalizeRelativePath(dirArg, srcArg))
  /\ UNCHANGED <<dirArg, srcArg, attachmentUrl>>
  /\ UNCHANGED <<callVars, noteIndex, appVars, mentionVars, tocVars>>

\* imageReplacer: if (!resolved) return whole; createAttachmentUrl(resolved)
CallCreateAttachmentUrl ==
  /\ normalized # None
  /\ normalized[1] # <<>>
  /\ attachmentUrl = None
  /\ attachmentUrl' = Some(createAttachmentUrl(normalized[1]))
  /\ UNCHANGED <<dirArg, srcArg, normalized>>
  /\ UNCHANGED <<callVars, noteIndex, appVars, mentionVars, tocVars>>

InitPaths ==
  /\ body = <<>>
  /\ notePath = <<>>
  /\ fn = "none"
  /\ out = NoResult
  /\ noteIndex = EmptyIndex
  /\ AppMounted
  /\ viewport = "desktop"
  /\ MentionsUnmounted
  /\ TocUnmounted
  /\ dirArg \in BaseDirs
  /\ srcArg \in RelativePaths
  /\ normalized = None
  /\ attachmentUrl = None

NextPaths ==
  \/ CallNormalizeRelativePath
  \/ CallCreateAttachmentUrl

SpecPaths == InitPaths /\ [][NextPaths]_vars

(***************************************************************************)
(* Table of contents: extractHeadings (components/TableOfContents.jsx),    *)
(* the heading components of createMarkdownComponents, scrollToHeading and *)
(* FloatingTocButton.  A body is a text of units with "\n" between its     *)
(* lines.  ReactMarkdown is taken to hand a heading component the text of  *)
(* the heading as children[0], and no children for an empty heading.       *)
(***************************************************************************)
MaxLines == 3

MaxClicks == 3

\* Lines of a note:  # A   ## A   # B   #   A
TocLines ==
  { <<"#", " ", "A">>, <<"#", "#", " ", "A">>, <<"#", " ", "B">>, <<"#">>, <<"A">> }

RECURSIVE BodiesOfLines(_)
BodiesOfLines(n) ==
  IF n = 0 THEN {<<>>}
  ELSE LET shorter == BodiesOfLines(n - 1)
       IN shorter \cup {b \o l \o <<"\n">> : b \in shorter, l \in TocLines}

Whitespace == {" ", "\n"}

\* text.toLowerCase()
toLowerCase(text) ==
  [i \in 1..Len(text) |->
     IF text[i] = "A" THEN "a" ELSE IF text[i] = "B" THEN "b" ELSE text[i]]

\* .replace(/\s+/g, '-')
RECURSIVE DashRuns(_)
DashRuns(text) ==
  IF text = <<>> THEN <<>>
  ELSE IF Head(text) \in Whitespace
       THEN IF Len(text) > 1 /\ text[2] \in Whitespace THEN DashRuns(Tail(text))
            ELSE <<"-">> \o DashRuns(Tail(text))
       ELSE <<Head(text)>> \o DashRuns(Tail(text))

\* text.toLowerCase().replace(/[^\w\s-]/g, '').replace(/\s+/g, '-')
slugify(text) ==
  DashRuns(SelectSeq(toLowerCase(text), LAMBDA c : c # "#"))

\* The number of the line that holds position i.
LineOf(s, i) == 1 + Cardinality({j \in 1..(i - 1) : s[j] = "\n"})

\* The match of /^(#{1,4})\s+(.+)$/m starting at i: one to four "#" at the
\* start of a line, then whitespace (blanks and line ends alike, as many as
\* leave a character of the same line to follow), then the rest of that line.
headingRegexMatch(s, i) ==
  LET n == Len(s)
      hashEnd == RunEnd(s, i, {"A", "B", " ", "\n"})
      level == hashEnd - i
      wsEnd == Min({j \in hashEnd..n : s[j] \notin Whitespace} \cup {n + 1})
      starts == {j \in (hashEnd + 1)..wsEnd : j <= n /\ s[j] # "\n"}
  IN IF /\ i <= n /\ (i = 1 \/ s[i - 1] = "\n")
        /\ level >= 1 /\ level <= 4
        /\ starts # {}
     THEN LET from == Max(starts)
              to == RunEnd(s, from, {"\n"}) - 1
          IN [ok |-> TRUE, to |-> to, level |-> level, raw |-> SubSeq(s, from, to)]
     ELSE NoMatch

\* [...markdown.matchAll(regex)].map((match, index) => ({level, text, id}));
\* line is the line the match starts on.
RECURSIVE HeadingsFrom(_, _, _)
HeadingsFrom(s, i, index) ==
  IF i > Len(s) THEN <<>>
  ELSE LET m == headingRegexMatch(s, i)
       IN IF m.ok
          THEN <<[level |-> m.level, text |-> trim(m.raw),
                  id |-> <<"heading-", ToString(index), "-">> \o slugify(m.raw),
                  line |-> LineOf(s, i)]>>
               \o HeadingsFrom(s, m.to + 1, index + 1)
          ELSE HeadingsFrom(s, i + 1, index)

extractHeadings(markdown) == HeadingsFrom(markdown, 1, 0)

\* tocHeadings: useMemo(() => extractHeadings(note?.body || ''), [note])
tocHeadings == extractHeadings(tocBody)

\* headings.findIndex((h) => h.level === index + 1 && h.text === children?.[0])
\* and the id of what it finds, or undefined.
headingId(headings, level, children) ==
  LET found == {k \in 1..Len(headings) :
                  headings[k].level = level /\ Some(headings[k].text) = children}
  IN IF found = {} THEN None ELSE Some(headings[Min(found)].id)

\* The heading elements ReactMarkdown renders for the body, in order: a line
\* of one to four "#", alone or followed by a blank and a text, is an h1..h4
\* with that text (trimmed) as its child; the heading component adds
\* data-heading-id.
HeadingElements ==
  LET lines == split(tocBody, "\n")
      headings == tocHeadings
      isHeading(l) ==
        LET hashEnd == RunEnd(l, 1, {"A", "B", " "})
        IN /\ hashEnd >= 2 /\ hashEnd <= 5
           /\ (hashEnd > Len(l) \/ l[hashEnd] = " ")
      element(k) ==
        LET l == lines[k]
            hashEnd == RunEnd(l, 1, {"A", "B", " "})
            content == trim(SubSeq(l, hashEnd, Len(l)))
            children == IF content = <<>> THEN None ELSE Some(content)
        IN [line |-> k, level |-> hashEnd - 1, children |-> children,
            dataHeadingId |-> headingId(headings, hashEnd - 1, children)]
      shown == SelectSeq([k \in 1..Len(lines) |-> k], LAMBDA k : isHeading(lines[k]))
  IN [j \in 1..Len(shown) |-> element(shown[j])]

\* scrollToHeading(id): document.querySelector('[data-heading-id="id"]') is
\* the first element with that attribute, or null; the line scrolled to.
scrollTarget(id) ==
  LET elements == HeadingElements
      hits == {j \in 1..Len(elements) : elements[j].dataHeadingId = Some(id)}
  IN IF hits = {} THEN 0 ELSE elements[Min(hits)].line

Clicked(what, k) == [on |-> what, item |-> k]

\* A click that calls onNavigate(heading.id) of item k.
Navigate(k) ==
  /\ navigated' = Some(tocHeadings[k].id)
  /\ scrolledTo' = scrollTarget(tocHeadings[k].id)

\* A click that calls nothing of the table of contents' callbacks.
NoNavigate ==
  /\ navigated' = None
  /\ scrolledTo' = 0

\* An item of the sidebar (TableOfContents, not collapsed) is clicked:
\* e.preventDefault(), onNavigate(heading.id).
SidebarItemClick ==
  /\ tocClicks < MaxClicks
  /\ \E k \in 1..Len(tocHeadings) :
       /\ tocClicked' = Clicked("sidebar item", k)
       /\ Navigate(k)
  /\ tocClicks' = tocClicks + 1
  /\ UNCHANGED <<tocBody, isOpen>>
  /\ UNCHANGED <<callVars, noteIndex, appVars, mentionVars, pathVars>>

\* The floating button: setIsOpen(true).
FabClick ==
  /\ tocClicks < MaxClicks
  /\ Len(tocHeadings) # 0
  /\ tocClicked' = Clicked("button", 0)
  /\ isOpen' = TRUE
  /\ NoNavigate
  /\ tocClicks' = tocClicks + 1
  /\ UNCHANGED tocBody
  /\ UNCHANGED <<callVars, noteIndex, appVars, mentionVars, pathVars>>

\* An item of the modal: onNavigate(heading.id), setIsOpen(false).
ModalItemClick ==
  /\ tocClicks < MaxClicks
  /\ isOpen
  /\ \E k \in 1..Len(tocHeadings) :
       /\ tocClicked' = Clicked("modal item", k)
       /\ Navigate(k)
  /\ isOpen' = FALSE
  /\ tocClicks' = tocClicks + 1
  /\ UNCHANGED tocBody
  /\ UNCHANGED <<callVars, noteIndex, appVars, mentionVars, pathVars>>

\* The overlay around the modal: setIsOpen(false).
OverlayClick ==
  /\ tocClicks < MaxClicks
  /\ isOpen
  /\ tocClicked' = Clicked("overlay", 0)
  /\ isOpen' = FALSE
  /\ NoNavigate
  /\ tocClicks' = tocClicks + 1
  /\ UNCHANGED tocBody
  /\ UNCHANGED <<callVars, noteIndex, appVars, mentionVars, pathVars>>

\* The close button of the modal: setIsOpen(false); the click then reaches
\* the modal, which stops it.
CloseClick ==
  /\ tocClicks < MaxClicks
  /\ isOpen
  /\ tocClicked' = Clicked("close", 0)
  /\ isOpen' = FALSE
  /\ NoNavigate
  /\ tocClicks' = tocClicks + 1
  /\ UNCHANGED tocBody
  /\ UNCHANGED <<callVars, noteIndex, appVars, mentionVars, pathVars>>

\* Variant: the modal does not stop the click, which reaches the overlay.
ModalInsideClickBubbling ==
  /\ tocClicks < MaxClicks
  /\ isOpen
  /\ tocClicked' = Clicked("modal", 0)
  /\ isOpen' = FALSE
  /\ NoNavigate
  /\ tocClicks' = tocClicks + 1
  /\ UNCHANGED tocBody
  /\ UNCHANGED <<callVars, noteIndex, appVars, mentionVars, pathVars>>

\* Anywhere else inside the modal (its header, the space around the items):
\* e.stopPropagation(), the overlay's handler does not run.
ModalInsideClick ==
  /\ tocClicks < MaxClicks
  /\ isOpen
  /\ tocClicked' = Clicked("modal", 0)
  /\ NoNavigate
  /\ tocClicks' = tocClicks + 1
  /\ UNCHANGED <<tocBody, isOpen>>
  /\ UNCHANGED <<callVars, noteIndex, appVars, mentionVars, pathVars>>

InitToc ==
  /\ body = <<>>
  /\ notePath = <<>>
  /\ fn = "none"
  /\ out = NoResult
  /\ noteIndex = EmptyIndex
  /\ AppMounted
  /\ viewport = "desktop"
  /\ MentionsUnmounted
  /\ NoPathCall
  /\ tocBody \in BodiesOfLines(MaxLines)
  /\ isOpen = FALSE
  /\ tocClicks = 0
  /\ tocClicked = Clicked("nothing", 0)
  /\ navigated = None
  /\ scrolledTo = 0

NextToc ==
  \/ SidebarItemClick
  \/ FabClick
  \/ ModalItemClick
  \/ OverlayClick
  \/ CloseClick
  \/ ModalInsideClick

SpecToc == InitToc /\ [][NextToc]_vars

(***************************************************************************)
(* Reading a result: the vocabulary of the properties                      *)
(***************************************************************************)
\* The text the wikilink pattern runs over in the function that was called.
Scanned ==
  IF fn = "rewriteNoteBody"
  THEN rewriteRelativeImages(rewriteObsidianEmbeds(body), notePath)
  ELSE body

\* The tokens the function recognised, in order.
Recognized ==
  IF fn = "Wikilink"
  THEN IF wholeMatch(body).ok THEN <<wholeMatch(body)>> ELSE <<>>
  ELSE LET hits == SelectSeq(scanWikilinks(Scanned, 1), LAMBDA x : x.k = "match")
       IN [i \in 1..Len(hits) |-> hits[i].m]

\* The markers the function produced, in order: the k-th marker stands for
\* the k-th recognised token.
Emitted == SelectSeq(out.items, LAMBDA x : x.k = "marker")

RECURSIVE DropLeading(_)
DropLeading(s) == IF s # <<>> /\ Head(s) = " " THEN DropLeading(Tail(s)) ELSE s

RECURSIVE DropTrailing(_)
DropTrailing(s) ==
  IF s # <<>> /\ s[Len(s)] = " " THEN DropTrailing(SubSeq(s, 1, Len(s) - 1)) ELSE s

\* A text without its leading and trailing blanks.
Trimmed(s) == DropTrailing(DropLeading(s))

Verdict(mk) ==
  IF "wikilink-missing" \in mk.cls THEN "Missing"
  ELSE IF "ambiguous" \in mk.cls THEN "Ambiguous"
  ELSE "Resolved"

\* The paths in a data-paths attribute written by preprocessWikilinks.
JsonPaths(s) ==
  IF s = <<>> \/ s[1] # "[" \/ Len(s) <= 2 THEN <<>>
  ELSE LET parts == split(SubSeq(s, 2, Len(s) - 1), ",")
       IN [i \in 1..Len(parts) |-> SubSeq(parts[i], 2, Len(parts[i]) - 1)]

\* The vault paths a marker of function f carries, read back from its markup.
CarriedBy(f, mk) ==
  IF f = "Wikilink"
  THEN IF mk.onClick = None THEN <<>>
       ELSE IF mk.onClick[1].call = "onNavigate" THEN mk.onClick[1].path
       ELSE IF mk.onClick[1].matches.t = "array" THEN mk.onClick[1].matches.v
       ELSE <<>>
  ELSE IF f = "preprocessWikilinks"
  THEN IF mk.dataPath # None THEN <<DecodeRefs(mk.dataPath[1])>>
       ELSE IF mk.dataPaths # None THEN JsonPaths(mk.dataPaths[1])
       ELSE <<>>
  ELSE IF mk.href # None
       THEN <<PercentDecode(SubSeq(mk.href[1], 4, Len(mk.href[1])))>>
       ELSE IF mk.dataPaths # None
       THEN LET parts == split(mk.dataPaths[1], ",")
            IN [i \in 1..Len(parts) |-> PercentDecode(parts[i])]
       ELSE <<>>

Carried(mk) == CarriedBy(fn, mk)

\* The token grammar of the specification, stated on a whole text: "[[",
\* a target without "]" and "|", optionally "|" and an alias without "]", "]]".
IsTarget(t) == t # <<>> /\ \A i \in 1..Len(t) : t[i] \notin {"]", "|"}

IsAlias(a) == a # <<>> /\ \A i \in 1..Len(a) : a[i] # "]"

IsTokenText(w) ==
  /\ Len(w) >= 5
  /\ w[1] = "[" /\ w[2] = "[" /\ w[Len(w) - 1] = "]" /\ w[Len(w)] = "]"
  /\ LET inner == SubSeq(w, 3, Len(w) - 2)
     IN \/ IsTarget(inner)
        \/ \E p \in 1..Len(inner) :
             /\ inner[p] = "|"
             /\ IsTarget(SubSeq(inner, 1, p - 1))
             /\ IsAlias(SubSeq(inner, p + 1, Len(inner)))

TokenEnds(s, i) == {j \in i..Len(s) : IsTokenText(SubSeq(s, i, j))}

NoToken(s) == \A i \in 1..Len(s) : TokenEnds(s, i) = {}

\* The text with every token span, taken from the left, replaced by a mark.
RECURSIVE Skeleton(_, _)
Skeleton(s, i) ==
  IF i > Len(s) THEN <<>>
  ELSE IF TokenEnds(s, i) # {} THEN <<"<token>">> \o Skeleton(s, Min(TokenEnds(s, i)) + 1)
  ELSE <<s[i]>> \o Skeleton(s, i + 1)

\* A result with every marker replaced by the same mark.
Shape(items) == [i \in 1..Len(items) |-> IF items[i].k = "lit" THEN items[i].ch ELSE "<token>"]

IsPrefix(a, b) == Len(a) <= Len(b) /\ SubSeq(b, 1, Len(a)) = a

Unchanged(text) == out = [status |-> "returned", items |-> Lits(text)]

(***************************************************************************)
(* Properties of the resolvers (checked under SpecRewrite)                 *)
(***************************************************************************)
Called == fn # "none"

KeyOf(k) == Trimmed(Recognized[k].target)

\* C1: a token whose trimmed target is a key of the index is Resolved with
\* the bucket's path when the bucket holds one path, and Ambiguous with all
\* the bucket's paths, in order, when it holds two or more; in
\* rewriteWikilinks, preprocessWikilinks and the Wikilink component alike.
C1_KeyClassified ==
  Called =>
    \A k \in 1..Len(Emitted) :
      KeyOf(k) \in DOMAIN noteIndex =>
        LET bucket == noteIndex[KeyOf(k)]
        IN /\ Len(bucket) = 1 =>
                Verdict(Emitted[k]) = "Resolved" /\ Carried(Emitted[k]) = bucket
           /\ Len(bucket) >= 2 =>
                Verdict(Emitted[k]) = "Ambiguous" /\ Carried(Emitted[k]) = bucket

\* C1 witness: the three resolvers met a one-path bucket whose path holds a
\* blank, here after rewriteWikilinks wrote an Ambiguous marker too.
C1_Witness ==
  /\ fn = "rewriteWikilinks"
  /\ noteIndex = IndexMixed
  /\ \E j, k \in 1..Len(Emitted) :
       /\ KeyOf(j) = <<"N">> /\ Verdict(Emitted[j]) = "Resolved"
       /\ KeyOf(k) = <<"n">> /\ Verdict(Emitted[k]) = "Ambiguous"
       /\ Carried(Emitted[k]) = <<PathB, PathC>>

\* C2 (as claimed): a token whose trimmed target is no key of the index
\* resolves to Missing, whatever the target's spelling: no link, no
\* disambiguation marker, no error.
C2_NonKeyIsMissing ==
  Called =>
    /\ out.status # "threw"
    /\ \A k \in 1..Len(Emitted) :
         KeyOf(k) \notin DOMAIN noteIndex => Verdict(Emitted[k]) = "Missing"

\* C3: a token is given the bucket of a key only if that key is exactly its
\* target without the leading and trailing blanks: no case folding, inner
\* blanks kept.
C3_ExactKey ==
  Called =>
    \A k \in 1..Len(Emitted) : \A key \in DOMAIN noteIndex :
      (Verdict(Emitted[k]) # "Missing" /\ Carried(Emitted[k]) = noteIndex[key])
        => key = KeyOf(k)

\* C3 witness: [[n]] met an index keyed "N" and not "n" and came out Missing,
\* next to a token that resolved.
C3_Witness ==
  /\ fn = "rewriteWikilinks"
  /\ noteIndex = IndexDup
  /\ \E j, k \in 1..Len(Emitted) :
       /\ Recognized[j].target = <<"n">> /\ Verdict(Emitted[j]) = "Missing"
       /\ Recognized[k].target = <<"N">> /\ Verdict(Emitted[k]) = "Ambiguous"

\* The display rule of the specification: the alias when it is present and
\* not blank, else the target, without leading and trailing blanks.
DisplayRule(m) ==
  IF m.alias # None /\ Trimmed(m.alias[1]) # <<>> THEN Trimmed(m.alias[1])
  ELSE Trimmed(m.target)

\* C4 (as claimed): the display text of every token follows the display rule
\* and is never empty.
C4_DisplayRule ==
  Called =>
    \A k \in 1..Len(Emitted) :
      Emitted[k].display = DisplayRule(Recognized[k]) /\ Emitted[k].display # <<>>

\* C5 (as claimed): a bracket sequence whose target is blank produces no
\* marker.
C5_BlankTargetNoMarker ==
  Called => \A k \in 1..Len(Emitted) : KeyOf(k) # <<>>

\* C6: text that fails the token grammar is never turned into a marker and
\* raises no error: there are no more markers than token spans, a text
\* without any token comes back as it was, and the Wikilink component shows
\* a raw text that is no token as it is.
C6_MalformedIsLiteral ==
  Called =>
    /\ Len(Emitted) <= Len(SelectSeq(Skeleton(Scanned, 1), LAMBDA x : x = "<token>"))
    /\ fn # "Wikilink" /\ NoToken(Scanned) => Unchanged(Scanned)
    /\ fn = "Wikilink" /\ ~IsTokenText(body) => Unchanged(body)

\* C6 witness: [[N|]] went through rewriteWikilinks and came back as it was.
C6_Witness ==
  fn = "rewriteWikilinks" /\ body = <<"[", "[", "N", "|", "]", "]">> /\ Unchanged(body)

\* C7: when the disambiguation modal opens for an Ambiguous token, the paths
\* it lists are a bucket of two or more paths of the index, in the order of
\* the index, and the selected choice is the first path of that bucket.
\* (Checked under Spec.)
C7_ModalListsBucket ==
  [][disambiguation = Null /\ disambiguation' # Null =>
       \E key \in DOMAIN noteIndex :
          /\ Len(noteIndex[key]) >= 2
          /\ disambiguation'.matches = noteIndex[key]
          /\ selected' = Str(noteIndex[key][1])]_vars

\* C8: the rewrite changes token spans only: the output is the text with each
\* token span replaced by one marker, all other characters unchanged and in
\* place (and what was produced before an error is the start of that).
C8_Frame ==
  fn \in {"rewriteWikilinks", "preprocessWikilinks", "rewriteNoteBody"} =>
    IF out.status = "returned" THEN Shape(out.items) = Skeleton(Scanned, 1)
    ELSE IsPrefix(Shape(out.items), Skeleton(Scanned, 1))

\* C8 witness: two tokens with text before, between and after them.
C8_Witness ==
  /\ fn = "rewriteWikilinks"
  /\ out.status = "returned"
  /\ Shape(out.items) = <<"N", "<token>", " ", "<token>">>

NoOpening(s) == \A i \in 1..(Len(s) - 1) : ~(s[i] = "[" /\ s[i + 1] = "[")

\* C9 (as claimed): a body without "[[" comes back unchanged from
\* rewriteWikilinks, preprocessWikilinks and rewriteNoteBody.
C9_NoLinksUnchanged ==
  (fn \in {"rewriteWikilinks", "preprocessWikilinks", "rewriteNoteBody"} /\ NoOpening(body))
    => Unchanged(body)

\* An image reference ![alt](src) whose src is relative.
IsRelativeImage(w) ==
  /\ Len(w) >= 6
  /\ w[1] = "!" /\ w[2] = "[" /\ w[Len(w)] = ")"
  /\ \E p \in 3..(Len(w) - 3) :
       /\ w[p] = "]" /\ w[p + 1] = "("
       /\ \A i \in 3..(p - 1) : w[i] # "]"
       /\ \A i \in (p + 2)..(Len(w) - 1) : w[i] # ")"
       /\ LET src == Trimmed(SubSeq(w, p + 2, Len(w) - 1))
          IN /\ src # <<>>
             /\ src[1] # "/"
             /\ ~(Len(src) >= 4 /\ src[1] \in {"http", "https"} /\ src[2] = ":"
                    /\ src[3] = "/" /\ src[4] = "/")
             /\ ~(Len(src) >= 2 /\ src[1] = "data" /\ src[2] = ":")

HasRelativeImage(s) ==
  \E i \in 1..Len(s) : \E j \in i..Len(s) : IsRelativeImage(SubSeq(s, i, j))

\* C9 (amended): a body without "[[" comes back unchanged from
\* rewriteWikilinks and preprocessWikilinks, and from rewriteNoteBody when it
\* holds no image reference with a relative source either.
C9_NoLinksNoImagesUnchanged ==
  /\ (fn \in {"rewriteWikilinks", "preprocessWikilinks"} /\ NoOpening(body))
       => Unchanged(body)
  /\ (fn = "rewriteNoteBody" /\ NoOpening(body) /\ ~HasRelativeImage(body))
       => Unchanged(body)

\* C9 witness: rewriteNoteBody returned a body with an absolute image as it
\* was.
C9_Witness ==
  /\ fn = "rewriteNoteBody"
  /\ body = <<"!", "[", "]", "(", "/", ")">>
  /\ Unchanged(body)

\* The replacer of the function called, on token m under another index.
ReplacerUnder(m, index) ==
  IF fn = "Wikilink" THEN Wikilink(body, index).items[1]
  ELSE IF fn = "preprocessWikilinks" THEN preprocessReplacer(m, index)
  ELSE rewriteReplacer(m, index)

\* What a reader sees of a marker's text: the Wikilink component renders a
\* text node; the markup of the rewrites is parsed, character references
\* decoded.
ShownBy(f, mk) == IF f = "Wikilink" THEN mk.text ELSE DecodeRefs(mk.text)

Shown(mk) == ShownBy(fn, mk)

\* C10 (as claimed): the text shown for a token is the same whichever verdict
\* the index gives it.
C10_TextIgnoresVerdict ==
  Called =>
    \A k \in 1..Len(Emitted) : \A index \in Indexes :
      ReplacerUnder(Recognized[k], index) # Throw
        => Shown(ReplacerUnder(Recognized[k], index)) = Shown(Emitted[k])

\* What a resolver says of a text: that it threw, or the text with, in the
\* place of each token, the verdict, the paths and the text shown.
ReadingOf(f, res) ==
  IF res.status = "threw"
  THEN <<[verdict |-> "threw", paths |-> <<>>, shown |-> <<>>]>>
  ELSE [i \in 1..Len(res.items) |->
          IF res.items[i].k = "lit"
          THEN [verdict |-> "literal", paths |-> <<>>, shown |-> <<res.items[i].ch>>]
          ELSE [verdict |-> Verdict(res.items[i]),
                paths |-> CarriedBy(f, res.items[i]),
                shown |-> ShownBy(f, res.items[i])]]

\* C19 (as claimed): rewriteWikilinks, preprocessWikilinks and the Wikilink
\* component are the same resolver: on every text and index the two rewrites
\* recognise the same tokens and give each the same verdict, paths and
\* display text, and so does the Wikilink component on a text that is one
\* token.
C19_ResolversAgree ==
  Called =>
    LET viaRewrite == ReadingOf("rewriteWikilinks", rewriteWikilinks(body, noteIndex))
        viaPreprocess == ReadingOf("preprocessWikilinks", preprocessWikilinks(body, noteIndex))
        viaComponent == ReadingOf("Wikilink", Wikilink(body, noteIndex))
    IN /\ viaRewrite = viaPreprocess
       /\ wholeMatch(body).ok => viaComponent = viaPreprocess

NoteTokens ==
  IF Falsy(note) THEN <<>>
  ELSE LET text == rewriteRelativeImages(rewriteObsidianEmbeds(note.body), note.path)
           hits == SelectSeq(scanWikilinks(text, 1), LAMBDA x : x.k = "match")
       IN [i \in 1..Len(hits) |-> hits[i].m]

\* The marker elements of the article, in order: the k-th stands for the
\* k-th token.
RenderedMarkers == SelectSeq(Rendered, LAMBDA x : x.k = "marker")

\* The index request has been answered without an index, or has failed: the
\* vault has notes, so its index is not empty.
IndexFetchFailed ==
  /\ authenticated = Bool(TRUE)
  /\ \A r \in requests : r.kind # "index"
  /\ noteIndex # VaultIndex

\* C11: after the index request has failed the app does not resolve wikilinks
\* against an empty index as if the vault had no notes: no token that names a
\* note of the vault is shown as Missing.
C11_FailedIndexNotResolved ==
  IndexFetchFailed =>
    \A k \in 1..Len(RenderedMarkers) :
       Verdict(RenderedMarkers[k]) = "Missing" =>
         trim(NoteTokens[k].target) \notin DOMAIN VaultIndex

\* The complete snapshots: the index App starts with and the index the
\* server holds.
Snapshots == {EmptyIndex, VaultIndex}

VerdictUnder(snap, target) ==
  IF target \notin DOMAIN snap THEN "Missing"
  ELSE IF Len(snap[target]) = 1 THEN "Resolved"
  ELSE "Ambiguous"

\* C12: the index is one complete snapshot in every state, and the article
\* shown was computed against that one snapshot: every marker has the verdict
\* its token has under it.
C12_OneSnapshot ==
  \E snap \in Snapshots :
     /\ noteIndex = snap
     /\ \A k \in 1..Len(RenderedMarkers) :
          Verdict(RenderedMarkers[k]) = VerdictUnder(snap, trim(NoteTokens[k].target))

\* The index of the vault has arrived and the note H.md is shown: its three
\* tokens are Ambiguous, Resolved and Missing.
C12_Witness ==
  /\ noteIndex = VaultIndex
  /\ ~Falsy(note) /\ note.path = PathH
  /\ Len(RenderedMarkers) = 3
  /\ Verdict(RenderedMarkers[1]) = "Ambiguous"
  /\ Verdict(RenderedMarkers[2]) = "Resolved"
  /\ Verdict(RenderedMarkers[3]) = "Missing"

\* C14: sanitizing keeps what the rewrite wrote into an ambiguous marker span:
\* the span handed to the span handler has the target attribute and the
\* path-list attribute of the marker, the list holding two or more paths.
C14_SanitizeKeepsMarker ==
  \A k \in DOMAIN Rendered :
     LET written == transformedBody.items[k]
         kept == Rendered[k]
     IN written.k = "marker" /\ written.el = "span" /\ "ambiguous" \in written.cls =>
          /\ kept.dataTarget = written.dataTarget /\ kept.dataTarget # None
          /\ kept.dataPaths = written.dataPaths /\ kept.dataPaths # None
          /\ Len(split(kept.dataPaths[1], ",")) >= 2

\* C15: the path selected by activating a wikilink, and the note then asked
\* of the notes API, is the path the index holds: every selected path and
\* every note request in flight names a note of the vault.
C15_SelectedIsIndexPath ==
  /\ selectedPath.t = "string" /\ selectedPath.v # <<>> => selectedPath.v \in DOMAIN Vault
  /\ \A r \in requests :
       r.kind = "note" => PercentDecode(encodeNotePath(r.path)) \in DOMAIN Vault

\* C16: activating an Ambiguous wikilink opens the modal for the target of
\* that wikilink and leaves the selected note as it was.
C16_AmbiguousOpensModal ==
  [][disambiguation = Null /\ disambiguation' # Null =>
       /\ selectedPath' = selectedPath
       /\ disambiguation'.target.t = "string"
       /\ \E k \in 1..Len(NoteTokens) :
            /\ trim(NoteTokens[k].target) = disambiguation'.target.v
            /\ VerdictUnder(noteIndex, disambiguation'.target.v) = "Ambiguous"]_vars

\* C17: once ESC has been pressed on the open modal, the modal is closed.
C17_EscapeCloses == keydown = "Escape" => disambiguation = Null

\* The key under which the index of the vault lists a path.
KeyOfPath(path) == CHOOSE key \in DOMAIN VaultIndex :
                     \E i \in 1..Len(VaultIndex[key]) : VaultIndex[key][i] = path

\* C18: the filename given to LinkedMentions for the note shown is the key
\* under which the index lists the path of that note.
C18_FilenameIsIndexKey ==
  Interactive /\ ~Falsy(note) => noteFilename = Str(KeyOfPath(note.path))

\* No request for a note is in flight.
NoNoteRequest == \A r \in requests : r.kind # "note"

\* C23 (as claimed): once no note request is in flight, the note shown is
\* the note of the selected path or none: no late response of an earlier
\* selection and no note left over from before a failed load.
C23_QuiescentNoteIsSelected ==
  Interactive /\ NoNoteRequest => Falsy(note) \/ Str(note.path) = selectedPath

\* C25 (as claimed): while the disambiguation modal is open, the path it has
\* selected is one of the paths it lists.
C25_SelectedIsListed ==
  disambiguation # Null =>
    /\ selected.t = "string"
    /\ \E i \in 1..Len(disambiguation.matches) : disambiguation.matches[i] = selected.v

(***************************************************************************)
(* Properties of LinkedMentions (checked under SpecMentions)               *)
(***************************************************************************)
\* C20: the Linked Mentions section starts collapsed on a mobile-width
\* viewport and expanded on a desktop-width one, and each click on the toggle
\* flips it.
C20_StartsByViewport ==
  [][/\ filename = Null /\ filename' # Null => expanded' = (viewport = "desktop")
     /\ filename # Null /\ filename' # Null /\ expanded' # expanded => MentionsShown]_vars

\* The error paragraph is on screen.
ErrorShown == MentionsShown /\ expanded /\ error # <<>>

\* The list of backlinks is on screen.
ListShown == MentionsShown /\ expanded /\ ~loading /\ error = <<>>

\* C24 (as claimed): once no backlinks request is in flight and none has
\* failed, the backlinks held are those returned for the current filename;
\* and loading is true while a request for the current filename is in flight.
C24_QuiescentBacklinksCurrent ==
  filename # Null =>
    /\ backlinkRequests = {} /\ error = <<>> => backlinks = BacklinksOf(filename.v)
    /\ (\E r \in backlinkRequests : Str(r.name) = filename) => loading

\* C26 (as claimed): after a backlinks request has failed, the section (when
\* not collapsed by the reader) shows the error message and no list, whether
\* or not backlinks of an earlier request are held.
C26_FailureIsShown ==
  filename # Null /\ error # <<>> /\ expanded => ErrorShown /\ ~ListShown

(***************************************************************************)
(* Properties of the image paths (checked under SpecPaths)                 *)
(***************************************************************************)
\* The segments of a path; the empty path has none.
Segments(path) == IF path = <<>> THEN <<>> ELSE split(path, "/")

\* No segment of the path is ".", ".." or empty.
Plain(path) ==
  \A i \in 1..Len(Segments(path)) : Segments(path)[i] \notin {<<>>, <<".">>, <<".", ".">>}

\* C27: for a note directory without ".", ".." and empty segments and any
\* relative source, normalizeRelativePath returns a path without ".", ".."
\* and empty segments; a source that has none of them is appended to the
\* directory as it is; one more ".." at the end of the source removes the
\* last segment of the result, and nothing when there is none; and the
\* attachment URL made of the result lies beneath the attachments route.
C27_NormalizedStaysBelow ==
  /\ normalized # None =>
        LET resolved == normalized[1]
            above == normalizeRelativePath(dirArg, srcArg \o <<"/", ".", ".">>)
        IN /\ Plain(resolved)
           /\ Plain(srcArg) =>
                resolved = IF dirArg = <<>> THEN srcArg ELSE dirArg \o <<"/">> \o srcArg
           /\ Segments(above) = SubSeq(Segments(resolved), 1, Len(Segments(resolved)) - 1)
  /\ attachmentUrl # None =>
        LET url == attachmentUrl[1]
            route == ATTACHMENTS_ROUTE \o <<"/">>
        IN /\ StartsWith(url, route)
           /\ Len(url) > Len(route)
           /\ Plain(SubSeq(url, Len(route) + 1, Len(url)))

\* C27 witness: the source "../../N" of a note in directory "a" climbs past
\* the vault root; the result is "N" and its URL /api/attachments/N.
C27_Witness ==
  /\ dirArg = <<"a">>
  /\ srcArg = <<".", ".", "/", ".", ".", "/", "N">>
  /\ normalized = Some(<<"N">>)
  /\ attachmentUrl = Some(ATTACHMENTS_ROUTE \o <<"/", "N">>)

(***************************************************************************)
(* Properties of the table of contents (checked under SpecToc)             *)
(***************************************************************************)
ItemClicked == tocClicked.on \in {"sidebar item", "modal item"}

\* The lines of the rendered heading elements that carry the id.
LinesCarrying(id) ==
  LET elements == HeadingElements
  IN {elements[j].line : j \in {i \in 1..Len(elements) :
                                  elements[i].dataHeadingId = Some(id)}}

\* C21: the ids of the extracted headings are distinct, the id of a heading
\* is carried by the heading element rendered from its line and by no other
\* element, and a click on an item of the table of contents scrolls to the
\* element of the heading the item shows.
C21_ItemScrollsToItsHeading ==
  /\ \A j, k \in 1..Len(tocHeadings) :
       j # k => tocHeadings[j].id # tocHeadings[k].id
  /\ \A k \in 1..Len(tocHeadings) :
       LinesCarrying(tocHeadings[k].id) = {tocHeadings[k].line}
  /\ ItemClicked => scrolledTo = tocHeadings[tocClicked.item].line

\* C22: the modal starts closed and only the floating button opens it; a
\* click on an item of the open modal hands that heading's id to onNavigate
\* and closes the modal; a click on the overlay or the close button closes
\* it and navigates nowhere; a click elsewhere inside the modal leaves it
\* open and navigates nowhere.
C22_ModalOpensAndCloses ==
  /\ ~isOpen
  /\ [][ /\ (~isOpen /\ isOpen') => tocClicked'.on = "button"
         /\ tocClicked'.on = "modal item" =>
              /\ isOpen /\ ~isOpen'
              /\ navigated' = Some(tocHeadings[tocClicked'.item].id)
         /\ tocClicked'.on \in {"overlay", "close"} =>
              isOpen /\ ~isOpen' /\ navigated' = None
         /\ tocClicked'.on = "modal" =>
              isOpen /\ isOpen' /\ navigated' = None ]_vars

\* The button, a click on the header of the modal, then the second item.
C22_Witness ==
  /\ tocBody = <<"#", " ", "A", "\n", "#", "#", " ", "A", "\n">>
  /\ tocClicks = 3
  /\ tocClicked = Clicked("modal item", 2)
  /\ navigated = Some(<<"heading-", "1", "-", "a">>)
  /\ scrolledTo = 2
  /\ ~isOpen

====
